---- MODULE Spec2Model ----
(***************************************************************************)
(* kindle_progress: an event-sourced tracker of reading progress.          *)
(*                                                                         *)
(*   events.py    the four event kinds, their one-line text form, their    *)
(*                parsers and their comparison operators                   *)
(*   store.py     EventStore, a newline-delimited append-only log file     *)
(*   snapshot.py  KindleLibrarySnapshot, the per-item state folded from    *)
(*                events                                                   *)
(*   main.py      _update (the diff against the observed library) and run  *)
(*                                                                         *)
(* A Python value that is either a result or a raised exception is a       *)
(* record: an event has the field cls, a raised exception is               *)
(* [raised |-> <exception class>].  A line of text is the sequence of its  *)
(* space-separated tokens.                                                 *)
(***************************************************************************)
EXTENDS Integers, Sequences, FiniteSets, TLC

VARIABLES
    file,       \* the log file at STORE_PATH: [exists, lines]
    store,      \* TRUE once an EventStore object for STORE_PATH exists
    snapshot,   \* the live KindleLibrarySnapshot: [exists, data]
    call        \* the last operation: its name, arguments and outcome

vars == <<file, store, snapshot, call>>

(***************************************************************************)
(* Bounds of the model.                                                    *)
(***************************************************************************)
MaxLoc == 2         \* locations and deltas range over 0..MaxLoc
MaxLog == 2         \* the log is extended while it has fewer lines
MaxObserved == 1    \* observed locations range over 0..MaxObserved
MaxFold == 3        \* a snapshot is constructed from at most MaxFold events

(***************************************************************************)
(* Item ids.  Python compares them as strings; Asins lists them in that    *)
(* order.                                                                  *)
(***************************************************************************)
Asins == <<"B1", "B2">>

AsinSet == {Asins[i] : i \in 1..Len(Asins)}

AsinRank(asin) == CHOOSE i \in 1..Len(Asins) : Asins[i] = asin

\* the string comparison self.asin < other.asin
StrLt(a, b) == AsinRank(a) < AsinRank(b)

(***************************************************************************)
(* Text.  '%d' % n and int(s) go through the decimal numerals; \w+ and     *)
(* \d+ are decided per token.                                              *)
(***************************************************************************)
Numerals == <<"0", "1", "2", "3", "4", "5", "6", "7", "8", "9", "10", "11", "12">>

NumeralSet == {Numerals[i] : i \in 1..Len(Numerals)}

\* '%d' % n
FormatD(n) == IF n >= 0 THEN Numerals[n + 1] ELSE "-" \o Numerals[1 - n]

\* int(s), for s matching \d+
ParseInt(s) == (CHOOSE i \in 1..Len(Numerals) : Numerals[i] = s) - 1

\* a timestamp as str(datetime) prints it, and other tokens holding a
\* character outside [A-Za-z0-9_]
NonWordTokens == {"2015-01-01T10:00:00", "B-1", "#"} \cup {"-" \o Numerals[i] : i \in 2..Len(Numerals)}

\* the token matches \w+
IsWord(t) == t \notin NonWordTokens

\* the token matches \d+
IsDigits(t) == t \in NumeralSet

POSITION_MEASURE == "LOCATION"

(***************************************************************************)
(* events.py: exceptions and the event classes.                            *)
(***************************************************************************)
Raise(exc) == [raised |-> exc]

IsRaised(v) == "raised" \in DOMAIN v

EventParseError == Raise("EventParseError")

AddEvent_WEIGHT == 0
SetReadingEvent_WEIGHT == 1
ReadEvent_WEIGHT == 2
SetFinishedEvent_WEIGHT == 3

EventClasses == <<"AddEvent", "SetReadingEvent", "ReadEvent", "SetFinishedEvent">>

\* AddEvent.__init__
AddEvent(asin) == [cls |-> "AddEvent", asin |-> asin]

\* SetReadingEvent.__init__: the position is kept as initial_position
SetReadingEvent(asin, initial_progress) ==
    [cls |-> "SetReadingEvent", asin |-> asin, initial_position |-> initial_progress]

\* ReadEvent.__init__ testing progress < 0
ReadEvent_accepting_zero(asin, progress) ==
    IF progress < 0
    THEN Raise("ValueError")
    ELSE [cls |-> "ReadEvent", asin |-> asin, progress |-> progress]

\* ReadEvent.__init__
ReadEvent(asin, progress) ==
    IF progress <= 0
    THEN Raise("ValueError")
    ELSE [cls |-> "ReadEvent", asin |-> asin, progress |-> progress]

\* SetFinishedEvent.__init__
SetFinishedEvent(asin) == [cls |-> "SetFinishedEvent", asin |-> asin]

\* KindleEvent.weight: the class attribute _WEIGHT
weight(e) ==
    CASE e.cls = "AddEvent" -> AddEvent_WEIGHT
      [] e.cls = "SetReadingEvent" -> SetReadingEvent_WEIGHT
      [] e.cls = "ReadEvent" -> ReadEvent_WEIGHT
      [] e.cls = "SetFinishedEvent" -> SetFinishedEvent_WEIGHT

\* KindleEvent.__eq__
__eq__(a, b) == weight(a) = weight(b) /\ a.asin = b.asin

\* KindleEvent.__lt__
__lt__(a, b) == weight(a) < weight(b) /\ StrLt(a.asin, b.asin)

\* KindleEvent.__gt__
__gt__(a, b) == weight(a) > weight(b) /\ StrLt(b.asin, a.asin)

\* KindleEvent.__ne__
__ne__(a, b) == ~__eq__(a, b)

\* __str__ of each class
__str__(e) ==
    CASE e.cls = "AddEvent" -> <<"ADD", e.asin>>
      [] e.cls = "SetReadingEvent" ->
            <<"START", "READING", e.asin, "FROM", POSITION_MEASURE, FormatD(e.initial_position)>>
      [] e.cls = "ReadEvent" ->
            <<"READ", e.asin, "FOR", FormatD(e.progress), POSITION_MEASURE \o "S">>
      [] e.cls = "SetFinishedEvent" -> <<"FINISHED", "READING", e.asin>>

\* AddEvent.from_str: ^ADD (\w+)$
AddEvent_from_str(string) ==
    IF Len(string) = 2 /\ string[1] = "ADD" /\ IsWord(string[2])
    THEN AddEvent(string[2])
    ELSE EventParseError

\* SetReadingEvent.from_str: ^START READING (\w+) FROM \w+ (\d+)$
SetReadingEvent_from_str(string) ==
    IF /\ Len(string) = 6
       /\ string[1] = "START" /\ string[2] = "READING" /\ IsWord(string[3])
       /\ string[4] = "FROM" /\ IsWord(string[5]) /\ IsDigits(string[6])
    THEN SetReadingEvent(string[3], ParseInt(string[6]))
    ELSE EventParseError

\* SetFinishedEvent.from_str: ^FINISHED READING (\w+)$
SetFinishedEvent_from_str(string) ==
    IF /\ Len(string) = 3
       /\ string[1] = "FINISHED" /\ string[2] = "READING" /\ IsWord(string[3])
    THEN SetFinishedEvent(string[3])
    ELSE EventParseError

\* ReadEvent.from_str: ^FINISHED READING (\w+)$, building a SetFinishedEvent
ReadEvent_from_str(string) ==
    IF /\ Len(string) = 3
       /\ string[1] = "FINISHED" /\ string[2] = "READING" /\ IsWord(string[3])
    THEN SetFinishedEvent(string[3])
    ELSE EventParseError

\* event_cls.from_str(string)
from_str(cls, string) ==
    CASE cls = "AddEvent" -> AddEvent_from_str(string)
      [] cls = "SetReadingEvent" -> SetReadingEvent_from_str(string)
      [] cls = "ReadEvent" -> ReadEvent_from_str(string)
      [] cls = "SetFinishedEvent" -> SetFinishedEvent_from_str(string)

(***************************************************************************)
(* The inputs the operations are tried on.                                 *)
(***************************************************************************)
Locs == 0..MaxLoc

\* every event the constructors build from ids in AsinSet and positions in Locs
Events ==
    {AddEvent(a) : a \in AsinSet}
    \cup {SetReadingEvent(a, p) : a \in AsinSet, p \in Locs}
    \cup {ReadEvent(a, d) : a \in AsinSet, d \in 1..MaxLoc}
    \cup {SetFinishedEvent(a) : a \in AsinSet}

\* the line run() writes for its UpdateEvent: a keyword and a timestamp
UpdateLine == <<"UPDATE", "2015-01-01T10:00:00">>

\* lines that are no event's text: a trailing token, a missing token,
\* a position that is no numeral, an item id that is no word, an empty line
ForeignLines ==
    {UpdateLine, <<>>, <<"ADD">>, <<"ADD", "B-1">>, <<"ADD", "B1", "B2">>,
     <<"START", "READING", "B1", "FROM", "LOCATION", "B2">>,
     <<"START", "READING", "B1", "FROM", "LOCATION", "-1">>,
     <<"START", "READING", "B1", "FROM", "LOCATION">>,
     <<"READ", "B1", "FOR", "1">>,
     <<"READ", "B1", "FOR", "1", "LOCATIONS", "#">>,
     <<"FINISHED", "READING">>,
     <<"FINISHED", "READING", "B1", "B2">>}

Lines == {__str__(e) : e \in Events} \cup ForeignLines

(***************************************************************************)
(* main.py:50: run() logs an UpdateEvent ahead of each pass.  The class is *)
(* not among the four of events.py; only its construction and its          *)
(* record_event call are.                                                  *)
(***************************************************************************)
UpdateEvent == [cls |-> "UpdateEvent"]

\* str(event), for whatever record_event is handed
PyStr(event) == IF event = UpdateEvent THEN UpdateLine ELSE __str__(event)

(***************************************************************************)
(* store.py: EventStore over the file at its path.                         *)
(***************************************************************************)
\* what a function without a return statement returns
None == [none |-> TRUE]

\* v is None, for v a list or None (decided on the printed values: TLC
\* does not compare a non-empty list with a record)
IsNone(v) == ToString(v) = ToString(None)

NoFile == [exists |-> FALSE, lines |-> <<>>]

\* EventStore.__init__: open(file_path, 'a').close()
EventStore_init(f) == [exists |-> TRUE, lines |-> f.lines]

\* record_event opening the file with mode 'w'
record_event_truncating(f, event) == [exists |-> TRUE, lines |-> <<PyStr(event)>>]

\* EventStore.record_event: open(path, 'a'), write(str(event) + '\n')
record_event(f, event) == [exists |-> TRUE, lines |-> Append(f.lines, PyStr(event))]

\* the inner loop of get_events over (AddEvent, SetReadingEvent, ReadEvent,
\* SetFinishedEvent): every class whose from_str returns appends its event
RECURSIVE get_events_classes(_, _)
get_events_classes(event_str, i) ==
    IF i > Len(EventClasses)
    THEN <<>>
    ELSE LET event == from_str(EventClasses[i], event_str)
         IN  (IF IsRaised(event) THEN <<>> ELSE <<event>>)
             \o get_events_classes(event_str, i + 1)

\* the outer loop of get_events: the local list `events` when it ends
RECURSIVE get_events_loop(_)
get_events_loop(event_strs) ==
    IF event_strs = <<>>
    THEN <<>>
    ELSE get_events_classes(Head(event_strs), 1) \o get_events_loop(Tail(event_strs))

\* EventStore.get_events: the loop fills `events`; the function ends
\* without a return statement
get_events(f) ==
    LET event_strs == f.lines
        events == get_events_loop(event_strs)
    IN  None

(***************************************************************************)
(* snapshot.py: ReadingStatus and KindleLibrarySnapshot.                   *)
(***************************************************************************)
COMPLETED == 0
CURRENT == 1
NOT_STARTED == 2

\* 'progress': None
NoProgress == -1

NoException == "None"

EmptyData == [a \in {} |-> [status |-> NOT_STARTED, progress |-> NoProgress]]

\* data with data[asin][key] = value
SetItem(data, asin, key, value) ==
    [data EXCEPT ![asin] = IF key = "status"
                           THEN [@ EXCEPT !.status = value]
                           ELSE [@ EXCEPT !.progress = value]]

\* process_event with one thing changed: create_missing gives an id the
\* snapshot lacks a fresh entry before the event is applied to it,
\* read_starts has a Read make its item CURRENT
process_event_changed(data, event, create_missing, read_starts) ==
    LET fresh == [status |-> NOT_STARTED, progress |-> NoProgress]
        known == IF create_missing /\ "asin" \in DOMAIN event
                 THEN [a \in DOMAIN data \cup {event.asin} |->
                          IF a \in DOMAIN data THEN data[a] ELSE fresh]
                 ELSE data
    IN  CASE event.cls = "AddEvent" ->
                [data |-> [a \in DOMAIN data \cup {event.asin} |->
                              IF a = event.asin THEN fresh ELSE data[a]],
                 exc |-> NoException]
          [] event.cls = "SetReadingEvent" ->
                IF event.asin \notin DOMAIN known
                THEN [data |-> data, exc |-> "KeyError"]
                ELSE LET started == SetItem(known, event.asin, "status", CURRENT)
                     IN  IF "initial_progress" \notin DOMAIN event
                         THEN [data |-> started, exc |-> "AttributeError"]
                         ELSE [data |-> SetItem(started, event.asin, "progress",
                                                event.initial_progress),
                               exc |-> NoException]
          [] event.cls = "ReadEvent" ->
                IF event.asin \notin DOMAIN known
                THEN [data |-> data, exc |-> "KeyError"]
                ELSE LET read == IF read_starts
                                 THEN SetItem(known, event.asin, "status", CURRENT)
                                 ELSE known
                     IN  IF read[event.asin].progress = NoProgress
                         THEN [data |-> read, exc |-> "TypeError"]
                         ELSE [data |-> SetItem(read, event.asin, "progress",
                                                read[event.asin].progress + event.progress),
                               exc |-> NoException]
          [] event.cls = "SetFinishedEvent" ->
                IF event.asin \notin DOMAIN known
                THEN [data |-> data, exc |-> "KeyError"]
                ELSE [data |-> SetItem(known, event.asin, "status", COMPLETED),
                      exc |-> NoException]
          [] OTHER -> [data |-> data, exc |-> "TypeError"]

\* process_event creating the entry of an id it does not know
process_event_create_missing(data, event) ==
    process_event_changed(data, event, TRUE, FALSE)

\* process_event with a Read that sets the status to CURRENT
process_event_read_starts(data, event) ==
    process_event_changed(data, event, FALSE, TRUE)

\* process_event with a Read that assigns its delta where it should add it
process_event_read_assigns(data, event) ==
    IF /\ event.cls = "ReadEvent"
       /\ event.asin \in DOMAIN data
       /\ data[event.asin].progress # NoProgress
    THEN process_event_changed(SetItem(data, event.asin, "progress", 0), event,
                               FALSE, FALSE)
    ELSE process_event_changed(data, event, FALSE, FALSE)

\* process_event with an Add that keeps the entry of an id it knows
process_event_add_keeps(data, event) ==
    IF event.cls = "AddEvent" /\ event.asin \in DOMAIN data
    THEN [data |-> data, exc |-> NoException]
    ELSE process_event_changed(data, event, FALSE, FALSE)

\* KindleLibrarySnapshot.process_event: the data it leaves and what it raises
process_event(data, event) ==
    CASE event.cls = "AddEvent" ->
            [data |-> [a \in DOMAIN data \cup {event.asin} |->
                          IF a = event.asin
                          THEN [status |-> NOT_STARTED, progress |-> NoProgress]
                          ELSE data[a]],
             exc |-> NoException]
      [] event.cls = "SetReadingEvent" ->
            IF event.asin \notin DOMAIN data
            THEN [data |-> data, exc |-> "KeyError"]
            ELSE LET started == SetItem(data, event.asin, "status", CURRENT)
                 IN  IF "initial_progress" \notin DOMAIN event
                     THEN [data |-> started, exc |-> "AttributeError"]
                     ELSE [data |-> SetItem(started, event.asin, "progress",
                                            event.initial_progress),
                           exc |-> NoException]
      [] event.cls = "ReadEvent" ->
            IF event.asin \notin DOMAIN data
            THEN [data |-> data, exc |-> "KeyError"]
            ELSE IF data[event.asin].progress = NoProgress
                 THEN [data |-> data, exc |-> "TypeError"]
                 ELSE [data |-> SetItem(data, event.asin, "progress",
                                        data[event.asin].progress + event.progress),
                       exc |-> NoException]
      [] event.cls = "SetFinishedEvent" ->
            IF event.asin \notin DOMAIN data
            THEN [data |-> data, exc |-> "KeyError"]
            ELSE [data |-> SetItem(data, event.asin, "status", COMPLETED),
                  exc |-> NoException]
      [] OTHER -> [data |-> data, exc |-> "TypeError"]

\* the loop of KindleLibrarySnapshot.__init__ from self.data = data on
RECURSIVE process_events(_, _)
process_events(data, events) ==
    IF events = <<>>
    THEN [data |-> data, exc |-> NoException]
    ELSE LET r == process_event(data, Head(events))
         IN  IF r.exc # NoException THEN r ELSE process_events(r.data, Tail(events))

\* KindleLibrarySnapshot.__init__(events): iterating None raises TypeError
KindleLibrarySnapshot(events) ==
    IF IsNone(events)
    THEN [data |-> EmptyData, exc |-> "TypeError"]
    ELSE process_events(EmptyData, events)

NoSnapshot == [exists |-> FALSE, data |-> EmptyData]

(***************************************************************************)
(* main.py: what the Cloud Reader API hands back, _update, and sorted().   *)
(***************************************************************************)
\* a ReadingProgress: loc_pair is (current_loc, end_loc)
LocPairs == {p \in (0..MaxObserved) \X (0..MaxObserved) : p[1] <= p[2]}

ReadingProgress(loc_pair) == [locs |-> loc_pair]

\* get_library_progress(): item id -> ReadingProgress, for some of the ids
ProgressMaps ==
    UNION {[S -> {ReadingProgress(p) : p \in LocPairs}] : S \in SUBSET AsinSet}

\* get_library_metadata(): a list of books, each with its asin; as many
\* books as there are ids, in any order, an id possibly listed twice
Catalogs ==
    UNION {[1..n -> {[asin |-> a] : a \in AsinSet}] : n \in 0..Len(Asins)}

\* locs[1], Python's second element
Locs1(progress) == progress.locs[2]

\* the loop of _update over current_books from book i on, new_events so far
RECURSIVE update_loop(_, _, _, _, _)
update_loop(data, current_books, current_progress, i, new_events) ==
    IF i > Len(current_books)
    THEN [events |-> new_events, exc |-> NoException]
    ELSE LET book == current_books[i]
         IN  IF book.asin \notin DOMAIN data
             THEN update_loop(data, current_books, current_progress, i + 1,
                              Append(new_events, AddEvent(book.asin)))
             ELSE IF data[book.asin].status # CURRENT
             THEN update_loop(data, current_books, current_progress, i + 1, new_events)
             ELSE IF book.asin \notin DOMAIN current_progress
             THEN [events |-> <<>>, exc |-> "KeyError"]
             ELSE IF data[book.asin].progress = NoProgress
             THEN [events |-> <<>>, exc |-> "TypeError"]
             ELSE LET change == Locs1(current_progress[book.asin])
                                    - data[book.asin].progress
                  IN  update_loop(data, current_books, current_progress, i + 1,
                                  IF change > 0
                                  THEN Append(new_events, ReadEvent(book.asin, change))
                                  ELSE new_events)

\* _update taking every observed book for a new one
_update_all_new(data, current_books, current_progress) ==
    update_loop(EmptyData, current_books, current_progress, 1, <<>>)

\* the loop of _update with one of its checks changed: any_status drops the
\* test of the status, missing_is_zero skips a CURRENT book that has no
\* observation
RECURSIVE update_loop_changed(_, _, _, _, _, _, _)
update_loop_changed(data, current_books, current_progress, i, new_events,
                    any_status, missing_is_zero) ==
    IF i > Len(current_books)
    THEN [events |-> new_events, exc |-> NoException]
    ELSE LET book == current_books[i]
         IN  IF book.asin \notin DOMAIN data
             THEN update_loop_changed(data, current_books, current_progress, i + 1,
                                      Append(new_events, AddEvent(book.asin)),
                                      any_status, missing_is_zero)
             ELSE IF ~any_status /\ data[book.asin].status # CURRENT
             THEN update_loop_changed(data, current_books, current_progress, i + 1,
                                      new_events, any_status, missing_is_zero)
             ELSE IF book.asin \notin DOMAIN current_progress
             THEN IF missing_is_zero
                  THEN update_loop_changed(data, current_books, current_progress, i + 1,
                                           new_events, any_status, missing_is_zero)
                  ELSE [events |-> <<>>, exc |-> "KeyError"]
             ELSE IF data[book.asin].progress = NoProgress
             THEN [events |-> <<>>, exc |-> "TypeError"]
             ELSE LET change == Locs1(current_progress[book.asin])
                                    - data[book.asin].progress
                  IN  update_loop_changed(data, current_books, current_progress, i + 1,
                                          IF change > 0
                                          THEN Append(new_events, ReadEvent(book.asin, change))
                                          ELSE new_events,
                                          any_status, missing_is_zero)

\* _update computing a change for every tracked book, whatever its status
_update_any_status(data, current_books, current_progress) ==
    update_loop_changed(data, current_books, current_progress, 1, <<>>, TRUE, FALSE)

\* _update taking a missing observation for no change
_update_missing_as_zero(data, current_books, current_progress) ==
    update_loop_changed(data, current_books, current_progress, 1, <<>>, FALSE, TRUE)

\* _update(snapshot, kcr): the list it returns, or what it raises
_update(data, current_books, current_progress) ==
    update_loop(data, current_books, current_progress, 1, <<>>)

(***************************************************************************)
(* sorted(new_events): CPython's list sort on fewer than 64 elements, the  *)
(* leading run (reversed when strictly descending) and then a binary       *)
(* insertion of every later element, all decided by __lt__ alone.          *)
(***************************************************************************)
Reverse(s) == [i \in 1..Len(s) |-> s[Len(s) + 1 - i]]

\* length of the run that starts the list
RECURSIVE run_end(_, _, _)
run_end(a, n, descending) ==
    IF n >= Len(a)
    THEN n
    ELSE IF __lt__(a[n + 1], a[n]) = descending
         THEN run_end(a, n + 1, descending)
         ELSE n

\* the slot binary search gives pivot in the sorted prefix a[l+1 .. r]
RECURSIVE bisect(_, _, _, _)
bisect(a, pivot, l, r) ==
    IF l >= r
    THEN l
    ELSE LET p == l + ((r - l) \div 2)
         IN  IF __lt__(pivot, a[p + 1])
             THEN bisect(a, pivot, l, p)
             ELSE bisect(a, pivot, p + 1, r)

RECURSIVE binarysort(_, _)
binarysort(a, start) ==
    IF start >= Len(a)
    THEN a
    ELSE LET pivot == a[start + 1]
             l == bisect(a, pivot, 0, start)
         IN  binarysort(SubSeq(a, 1, l) \o <<pivot>> \o SubSeq(a, l + 1, start)
                            \o SubSeq(a, start + 2, Len(a)),
                        start + 1)

sorted(a) ==
    IF Len(a) < 2
    THEN a
    ELSE LET descending == __lt__(a[2], a[1])
             n == run_end(a, 2, descending)
             lead == IF descending
                     THEN Reverse(SubSeq(a, 1, n)) \o SubSeq(a, n + 1, Len(a))
                     ELSE a
         IN  binarysort(lead, n)

(***************************************************************************)
(* State.  The file at STORE_PATH outlives the objects; a store and a      *)
(* snapshot object exist once constructed.                                 *)
(***************************************************************************)
\* logs found on disk when the program starts
InitialLogs ==
    {<<>>, <<UpdateLine>>, <<__str__(AddEvent("B1"))>>,
     <<__str__(AddEvent("B1")), <<"ADD", "B1", "B2">>>>}

Init ==
    /\ file \in {NoFile} \cup {[exists |-> TRUE, lines |-> l] : l \in InitialLogs}
    /\ store = FALSE
    /\ snapshot = NoSnapshot
    /\ call = [op |-> "init"]

\* the program started where no log exists yet
InitNoFile ==
    /\ file = NoFile
    /\ store = FALSE
    /\ snapshot = NoSnapshot
    /\ call = [op |-> "init"]

(***************************************************************************)
(* The event model, operation by operation.                                *)
(***************************************************************************)
\* str(event)
DoStr(event) ==
    /\ call' = [op |-> "str", event |-> event, ret |-> __str__(event)]
    /\ UNCHANGED <<file, store, snapshot>>

\* event_cls.from_str(string)
DoFromStr(cls, string) ==
    /\ call' = [op |-> "from_str", cls |-> cls, string |-> string,
                ret |-> from_str(cls, string)]
    /\ UNCHANGED <<file, store, snapshot>>

\* a < b, a == b, a > b, a != b
DoCompare(a, b) ==
    /\ call' = [op |-> "compare", a |-> a, b |-> b,
                lt |-> __lt__(a, b), eq |-> __eq__(a, b), gt |-> __gt__(a, b), ne |-> __ne__(a, b)]
    /\ UNCHANGED <<file, store, snapshot>>

\* ReadEvent(asin, progress)
DoReadEvent(asin, progress) ==
    /\ call' = [op |-> "ReadEvent", asin |-> asin, progress |-> progress,
                ret |-> ReadEvent(asin, progress)]
    /\ UNCHANGED <<file, store, snapshot>>

NextEvents ==
    \/ \E event \in Events : DoStr(event)
    \/ \E i \in 1..Len(EventClasses), string \in Lines : DoFromStr(EventClasses[i], string)
    \/ \E a \in Events, b \in Events : DoCompare(a, b)
    \/ \E asin \in AsinSet, progress \in -MaxLoc..MaxLoc : DoReadEvent(asin, progress)

SpecEvents == InitNoFile /\ [][NextEvents]_vars

(***************************************************************************)
(* The store, operation by operation.                                      *)
(***************************************************************************)
\* EventStore(STORE_PATH)
NewEventStore ==
    /\ file' = EventStore_init(file)
    /\ store' = TRUE
    /\ call' = [op |-> "EventStore"]
    /\ UNCHANGED snapshot

\* store.record_event(event)
RecordEvent(event) ==
    /\ store
    /\ Len(file.lines) < MaxLog
    /\ file' = record_event(file, event)
    /\ call' = [op |-> "record_event", event |-> event]
    /\ UNCHANGED <<store, snapshot>>

\* store.get_events()
GetEvents ==
    /\ store
    /\ call' = [op |-> "get_events", ret |-> get_events(file)]
    /\ UNCHANGED <<file, store, snapshot>>

\* snapshot = KindleLibrarySnapshot(store.get_events()); the name is bound
\* only when the constructor returns
Replay ==
    /\ store
    /\ LET r == KindleLibrarySnapshot(get_events(file))
       IN  /\ snapshot' = IF r.exc = NoException
                          THEN [exists |-> TRUE, data |-> r.data]
                          ELSE snapshot
           /\ call' = [op |-> "replay", exc |-> r.exc]
    /\ UNCHANGED <<file, store>>

NextStore ==
    \/ NewEventStore
    \/ \E event \in Events \cup {UpdateEvent} : RecordEvent(event)
    \/ GetEvents
    \/ Replay

SpecStore == Init /\ [][NextStore]_vars

(***************************************************************************)
(* The snapshot and the diff, operation by operation.                      *)
(***************************************************************************)
\* KindleLibrarySnapshot(), events left at its default ()
NewSnapshot ==
    /\ snapshot' = [exists |-> TRUE, data |-> KindleLibrarySnapshot(<<>>).data]
    /\ call' = [op |-> "KindleLibrarySnapshot"]
    /\ UNCHANGED <<file, store>>

\* snapshot.process_event(event)
ProcessEvent(event) ==
    /\ snapshot.exists
    /\ LET r == process_event(snapshot.data, event)
       IN  /\ snapshot' = [snapshot EXCEPT !.data = r.data]
           /\ call' = [op |-> "process_event", event |-> event, exc |-> r.exc]
    /\ UNCHANGED <<file, store>>

\* _update(snapshot, kcr), kcr answering with current_books and current_progress
Update(current_books, current_progress) ==
    /\ snapshot.exists
    /\ LET r == _update(snapshot.data, current_books, current_progress)
       IN  call' = [op |-> "_update", books |-> current_books,
                    progress |-> current_progress,
                    events |-> r.events, exc |-> r.exc]
    /\ UNCHANGED <<file, store, snapshot>>

NextReconcile ==
    \/ NewSnapshot
    \/ \E event \in Events \cup {UpdateEvent} : ProcessEvent(event)
    \/ \E current_books \in Catalogs, current_progress \in ProgressMaps :
          Update(current_books, current_progress)

SpecReconcile == InitNoFile /\ [][NextReconcile]_vars

\* the lists of events a snapshot is constructed from
RECURSIVE ListsUpTo(_)
ListsUpTo(n) ==
    IF n = 0
    THEN {<<>>}
    ELSE LET shorter == ListsUpTo(n - 1)
         IN  shorter \cup {Append(l, e) : l \in {s \in shorter : Len(s) = n - 1},
                                          e \in Events}

EventLists == ListsUpTo(MaxFold)

\* KindleLibrarySnapshot(events): process_event on each event in turn; an
\* exception leaves __init__ and no snapshot is bound
NewSnapshotFrom(events) ==
    /\ LET r == KindleLibrarySnapshot(events)
       IN  /\ snapshot' = IF r.exc = NoException
                          THEN [exists |-> TRUE, data |-> r.data]
                          ELSE snapshot
           /\ call' = [op |-> "KindleLibrarySnapshot_events", events |-> events,
                       exc |-> r.exc]
    /\ UNCHANGED <<file, store>>

\* What the constructor builds from a list does not depend on the state it
\* is called in: it is tried as a client's first operation only.
NewSnapshotFromList ==
    /\ call.op = "init"
    /\ \E events \in EventLists : NewSnapshotFrom(events)

\* the snapshot alone: constructed empty or from a list, then fed events
NextSnapshot ==
    \/ NewSnapshot
    \/ NewSnapshotFromList
    \/ \E event \in Events \cup {UpdateEvent} : ProcessEvent(event)

SpecSnapshot == InitNoFile /\ [][NextSnapshot]_vars

\* an entry of self.data: a status and a progress, None or a location
Entries == [status : {COMPLETED, CURRENT, NOT_STARTED}, progress : {NoProgress} \cup Locs]

\* self.data: a dict from some of the ids to entries
DataDicts == UNION {[S -> Entries] : S \in SUBSET AsinSet}

\* a snapshot whose data is any such dict
InitEntries ==
    /\ file = NoFile
    /\ store = FALSE
    /\ snapshot \in {[exists |-> TRUE, data |-> d] : d \in DataDicts}
    /\ call = [op |-> "init"]

\* process_event as a function of the data it finds: one event applied to
\* the snapshot as drawn
ProcessEventOnce(event) ==
    /\ call.op = "init"
    /\ ProcessEvent(event)

NextEntries == \E event \in Events \cup {UpdateEvent} : ProcessEventOnce(event)

SpecEntries == InitEntries /\ [][NextEntries]_vars

(***************************************************************************)
(* run(), section by section.  An exception leaves run(): its store and    *)
(* snapshot are gone, the file stays as written so far.                    *)
(***************************************************************************)
\* main.py:64-67: record and apply each event of the sorted batch in turn
RECURSIVE pass_loop(_, _, _, _)
pass_loop(f, data, events, recorded) ==
    IF events = <<>>
    THEN [file |-> f, data |-> data, recorded |-> recorded, exc |-> NoException]
    ELSE LET f1 == record_event(f, Head(events))
             r == process_event(data, Head(events))
         IN  IF r.exc # NoException
             THEN [file |-> f1, data |-> r.data,
                   recorded |-> Append(recorded, Head(events)), exc |-> r.exc]
             ELSE pass_loop(f1, r.data, Tail(events), Append(recorded, Head(events)))

\* main.py:47-48: store = EventStore(STORE_PATH);
\* snapshot = KindleLibrarySnapshot(store.get_events())
RunBoot ==
    /\ file' = EventStore_init(file)
    /\ LET r == KindleLibrarySnapshot(get_events(file'))
       IN  /\ store' = (r.exc = NoException)
           /\ snapshot' = IF r.exc = NoException
                          THEN [exists |-> TRUE, data |-> r.data]
                          ELSE NoSnapshot
           /\ call' = [op |-> "boot", exc |-> r.exc]

\* main.py:50-69: the reconciliation pass
RunPass(current_books, current_progress) ==
    /\ store /\ snapshot.exists
    /\ Len(file.lines) < MaxLog
    /\ LET u == _update(snapshot.data, current_books, current_progress)
           r == IF u.exc # NoException
                THEN [file |-> file, data |-> snapshot.data, recorded |-> <<>>,
                      exc |-> u.exc]
                ELSE pass_loop(record_event(file, UpdateEvent), snapshot.data,
                               sorted(u.events), <<>>)
       IN  /\ file' = r.file
           /\ store' = (r.exc = NoException)
           /\ snapshot' = IF r.exc = NoException
                          THEN [exists |-> TRUE, data |-> r.data]
                          ELSE NoSnapshot
           /\ call' = [op |-> "pass", books |-> current_books,
                       progress |-> current_progress, new_events |-> u.events,
                       batch |-> r.recorded, exc |-> r.exc]

\* main.py:90-103: one 'start {#}' or 'finish {#}' command of the loop that
\* follows the pass, over the pass's current_books and current_progress
RunCommand(cmd, number) ==
    /\ call.op \in {"pass", "command"} /\ call.exc = NoException
    /\ Len(file.lines) < MaxLog
    /\ LET known == number \in 1..Len(call.books)
           asin == call.books[number].asin
           observed == asin \in DOMAIN call.progress
           event == IF cmd = "start"
                    THEN SetReadingEvent(asin, Locs1(call.progress[asin]))
                    ELSE SetFinishedEvent(asin)
           r == IF ~known \/ (cmd = "start" /\ ~observed)
                THEN [file |-> file, data |-> snapshot.data, recorded |-> <<>>,
                      exc |-> "KeyError"]
                ELSE pass_loop(file, snapshot.data, <<event>>, <<>>)
       IN  /\ file' = r.file
           /\ store' = (r.exc = NoException)
           /\ snapshot' = IF r.exc = NoException
                          THEN [exists |-> TRUE, data |-> r.data]
                          ELSE NoSnapshot
           /\ call' = [op |-> "command", books |-> call.books,
                       progress |-> call.progress, batch |-> r.recorded,
                       exc |-> r.exc]

Next ==
    \/ RunBoot
    \/ NewEventStore
    \/ NewSnapshot
    \/ \E event \in Events : ProcessEvent(event)
    \/ \E current_books \in Catalogs, current_progress \in ProgressMaps :
          RunPass(current_books, current_progress)
    \/ \E cmd \in {"start", "finish"}, number \in 1..Len(Asins) + 1 : RunCommand(cmd, number)

Spec == Init /\ [][Next]_vars

\* the reconciliation pass alone, over every store and snapshot a client of
\* the classes can hand it
NextPass ==
    \/ NewEventStore
    \/ NewSnapshot
    \/ \E event \in Events : ProcessEvent(event)
    \/ \E current_books \in Catalogs, current_progress \in ProgressMaps :
          RunPass(current_books, current_progress)

SpecPass == InitNoFile /\ [][NextPass]_vars

(***************************************************************************)
(* Properties of the event model (SpecEvents).                             *)
(***************************************************************************)
\* C1: round trip. Whenever a kind's from_str is applied to the text str()
\* gives for an event e of that kind, it returns e: the same kind, the same
\* item id and the same position or delta.
C1_RoundTrip ==
    call.op = "from_str" =>
        \A e \in Events :
            (e.cls = call.cls /\ __str__(e) = call.string) => call.ret = e

\* C2: no two kinds share a decode pattern. A string one kind's from_str
\* accepts is rejected by the other three, and the event returned is of the
\* decoder's own kind.
C2_ExclusiveDecode ==
    (call.op = "from_str" /\ ~IsRaised(call.ret)) =>
        /\ call.ret.cls = call.cls
        /\ \A i \in 1..Len(EventClasses) :
              EventClasses[i] # call.cls => IsRaised(from_str(EventClasses[i], call.string))

\* the order of the data model: by weight, then by item id
LexLt(a, b) ==
    \/ weight(a) < weight(b)
    \/ weight(a) = weight(b) /\ StrLt(a.asin, b.asin)

\* C3: comparison is lexicographic on (weight, item id). a < b exactly when
\* a precedes b in that order, a == b exactly when weight and id agree, and
\* exactly one of a < b, a == b, a > b holds.
C3_Lexicographic ==
    call.op = "compare" =>
        /\ call.lt = LexLt(call.a, call.b)
        /\ call.eq = (weight(call.a) = weight(call.b) /\ call.a.asin = call.b.asin)
        /\ Cardinality({k \in {"lt", "eq", "gt"} : call[k]}) = 1

\* C17: ReadEvent(id, delta) raises ValueError for every id when delta is
\* zero or negative, and builds the Read event with that delta otherwise: no
\* Read event with a non-positive delta comes to exist.
C17_NonPositiveReadRejected ==
    call.op = "ReadEvent" =>
        /\ call.progress <= 0 => call.ret = Raise("ValueError")
        /\ call.progress > 0 =>
              call.ret = [cls |-> "ReadEvent", asin |-> call.asin,
                          progress |-> call.progress]

C17_Witness ==
    /\ call.op = "ReadEvent"
    /\ call.progress = 0
    /\ call.ret = Raise("ValueError")

\* the canonical encoding of each kind: ADD <id>, START READING <id> FROM
\* LOCATION <int>, READ <id> FOR <int> LOCATIONS, FINISHED READING <id>
Grammar(cls, string) ==
    CASE cls = "AddEvent" ->
            Len(string) = 2 /\ string[1] = "ADD" /\ IsWord(string[2])
      [] cls = "SetReadingEvent" ->
            /\ Len(string) = 6
            /\ string[1] = "START" /\ string[2] = "READING" /\ IsWord(string[3])
            /\ string[4] = "FROM" /\ string[5] = "LOCATION" /\ IsDigits(string[6])
      [] cls = "ReadEvent" ->
            /\ Len(string) = 5
            /\ string[1] = "READ" /\ IsWord(string[2]) /\ string[3] = "FOR"
            /\ IsDigits(string[4]) /\ string[5] = "LOCATIONS"
      [] cls = "SetFinishedEvent" ->
            /\ Len(string) = 3
            /\ string[1] = "FINISHED" /\ string[2] = "READING" /\ IsWord(string[3])

\* C18: each kind's from_str raises EventParseError for every string that is
\* not an encoding of that kind: one with extra or missing tokens, one with
\* a position that is no number, or the encoding of another kind.
C18_RejectsNonMatching ==
    (call.op = "from_str" /\ ~Grammar(call.cls, call.string)) =>
        call.ret = EventParseError

(***************************************************************************)
(* Properties of the store (SpecStore).                                    *)
(***************************************************************************)
EventLines == {__str__(e) : e \in Events}

EventOfLine(line) == CHOOSE e \in Events : __str__(e) = line

\* the events a log stands for: one per line that is an event's text
RECURSIVE IntendedEvents(_)
IntendedEvents(lines) ==
    IF lines = <<>>
    THEN <<>>
    ELSE (IF Head(lines) \in EventLines THEN <<EventOfLine(Head(lines))>> ELSE <<>>)
         \o IntendedEvents(Tail(lines))

\* C5: store round trip. When every line of the log is the text of a
\* recorded event, get_events returns exactly one event per line, the i-th
\* equal to the i-th event recorded.
C5_StoreRoundTrip ==
    (call.op = "get_events" /\ \A i \in 1..Len(file.lines) : file.lines[i] \in EventLines) =>
        call.ret = [i \in 1..Len(file.lines) |-> EventOfLine(file.lines[i])]

\* C6: replaying an empty log. KindleLibrarySnapshot(store.get_events()) on
\* a log without lines is built without error and tracks no item.
C6_EmptyReplay ==
    (call.op = "replay" /\ file.lines = <<>>) =>
        /\ call.exc = NoException
        /\ snapshot.exists
        /\ DOMAIN snapshot.data = {}

\* C7: lenient replay. On a log holding a line that matches no event
\* grammar, get_events still returns, in order, the events of all other
\* lines, and nothing for that line.
C7_LenientReplay ==
    (call.op = "get_events" /\ \E i \in 1..Len(file.lines) : file.lines[i] \notin EventLines) =>
        call.ret = IntendedEvents(file.lines)

IsPrefix(s, t) == Len(s) <= Len(t) /\ SubSeq(t, 1, Len(s)) = s

\* C8: the log is append-only. No step changes, removes or reorders a line
\* already written, and record_event(e) leaves the previous content followed
\* by exactly one line, str(e).
C8_AppendOnly ==
    [][/\ IsPrefix(file.lines, file'.lines)
       /\ call'.op = "record_event" =>
             file'.lines = Append(file.lines, PyStr(call'.event))]_vars

C8_Witness ==
    /\ call.op = "record_event"
    /\ Len(file.lines) >= 2
    /\ file.lines[Len(file.lines)] = PyStr(call.event)

(***************************************************************************)
(* Properties of the diff (SpecReconcile).                                 *)
(***************************************************************************)
\* Add(id) for every book of the catalog whose id the snapshot lacks, in
\* catalog order
RECURSIVE AddsForAbsent(_, _)
AddsForAbsent(data, books) ==
    IF books = <<>>
    THEN <<>>
    ELSE (IF Head(books).asin \in DOMAIN data THEN <<>> ELSE <<AddEvent(Head(books).asin)>>)
         \o AddsForAbsent(data, Tail(books))

IsAdd(e) == e.cls = "AddEvent"

\* C10: the list _update returns holds Add(id) for each observed book whose
\* id the snapshot lacks and no Add for an id it tracks; on an empty
\* snapshot _update returns, and returns exactly one Add per catalog item,
\* in catalog order.
C10_AddsForAbsent ==
    call.op = "_update" =>
        /\ call.exc = NoException =>
              SelectSeq(call.events, IsAdd) = AddsForAbsent(snapshot.data, call.books)
        /\ DOMAIN snapshot.data = {} =>
              /\ call.exc = NoException
              /\ call.events = [i \in 1..Len(call.books) |-> AddEvent(call.books[i].asin)]

C10_Witness ==
    /\ call.op = "_update"
    /\ call.exc = NoException
    /\ \E i, j \in 1..Len(call.books) :
          /\ call.books[i].asin \in DOMAIN snapshot.data
          /\ call.books[j].asin \notin DOMAIN snapshot.data
          /\ call.events = <<AddEvent(call.books[j].asin)>>

\* the catalog's books the snapshot tracks as CURRENT
CurrentBooks(data, books) ==
    {i \in 1..Len(books) : /\ books[i].asin \in DOMAIN data
                           /\ data[books[i].asin].status = CURRENT}

\* Read(id, delta) for every CURRENT book of the catalog whose observed
\* current location lies delta > 0 past the snapshot's progress, in catalog
\* order
RECURSIVE ReadsForCurrent(_, _, _)
ReadsForCurrent(data, books, progress) ==
    IF books = <<>>
    THEN <<>>
    ELSE LET asin == Head(books).asin
             delta == progress[asin].locs[1] - data[asin].progress
         IN  (IF asin \in DOMAIN data /\ data[asin].status = CURRENT /\ delta > 0
              THEN <<[cls |-> "ReadEvent", asin |-> asin, progress |-> delta] >>
              ELSE <<>>)
             \o ReadsForCurrent(data, Tail(books), progress)

IsRead(e) == e.cls = "ReadEvent"

\* C11: when every CURRENT book of the catalog has an observation, _update
\* returns, and the Read events it returns are exactly Read(id, delta) for
\* each CURRENT book with delta > 0, delta being the observed current
\* location minus the snapshot's progress, and none for delta <= 0.
C11_ReadsForCurrent ==
    (/\ call.op = "_update"
     /\ \A i \in CurrentBooks(snapshot.data, call.books) :
            call.books[i].asin \in DOMAIN call.progress) =>
        /\ call.exc = NoException
        /\ SelectSeq(call.events, IsRead)
              = ReadsForCurrent(snapshot.data, call.books, call.progress)

\* C12: _update returns no event for a book the snapshot tracks as
\* NOT_STARTED or COMPLETED, whatever was observed for it, a larger position
\* or nothing at all: every event of the list is for an untracked or a
\* CURRENT id, and over a catalog with no CURRENT book _update returns, and
\* returns the Adds for the untracked ids only.
C12_NoEventUnlessCurrent ==
    call.op = "_update" =>
        /\ call.exc = NoException =>
              \A k \in 1..Len(call.events) :
                  call.events[k].asin \in DOMAIN snapshot.data =>
                      snapshot.data[call.events[k].asin].status = CURRENT
        /\ CurrentBooks(snapshot.data, call.books) = {} =>
              /\ call.exc = NoException
              /\ call.events = AddsForAbsent(snapshot.data, call.books)

C12_Witness ==
    /\ call.op = "_update"
    /\ call.exc = NoException
    /\ call.events = <<>>
    /\ \E i, j \in 1..Len(call.books) :
          LET a == call.books[i].asin
              b == call.books[j].asin
          IN  /\ a \in DOMAIN snapshot.data /\ b \in DOMAIN snapshot.data
              /\ snapshot.data[a].status = COMPLETED
              /\ a \in DOMAIN call.progress
              /\ call.progress[a].locs[1] > 0
              /\ snapshot.data[b].status = NOT_STARTED
              /\ b \notin DOMAIN call.progress

(***************************************************************************)
(* Properties of the snapshot (SpecSnapshot).                              *)
(***************************************************************************)
\* C14: process_event of SetReading(id, p) on a snapshot that tracks id
\* succeeds and leaves the item CURRENT with progress p, whatever its
\* progress was; a snapshot constructed from [Add(id), SetReading(id, p),
\* Read(id, d)] holds the item as CURRENT with progress p + d.
C14_SetReadingSetsProgress ==
    /\ (/\ call.op = "process_event"
        /\ call.event.cls = "SetReadingEvent"
        /\ call.event.asin \in DOMAIN snapshot.data) =>
           /\ call.exc = NoException
           /\ snapshot.data[call.event.asin]
                 = [status |-> CURRENT, progress |-> call.event.initial_position]
    /\ call.op = "KindleLibrarySnapshot_events" =>
           \A a \in AsinSet, p \in Locs, d \in 1..MaxLoc :
               call.events = <<AddEvent(a), SetReadingEvent(a, p), ReadEvent(a, d)>> =>
                   /\ call.exc = NoException
                   /\ snapshot.exists
                   /\ snapshot.data[a] = [status |-> CURRENT, progress |-> p + d]

\* C15: process_event of SetFinished(id) on a snapshot that tracks id
\* succeeds, makes the item COMPLETED and changes nothing else, its progress
\* included; a snapshot constructed from [Add(id), SetReading(id, p),
\* SetFinished(id)] holds the item as COMPLETED with progress p.
C15_SetFinishedKeepsProgress ==
    [][/\ (/\ call'.op = "process_event"
           /\ call'.event.cls = "SetFinishedEvent"
           /\ call'.event.asin \in DOMAIN snapshot.data) =>
              /\ call'.exc = NoException
              /\ snapshot'.data
                    = [snapshot.data EXCEPT ![call'.event.asin].status = COMPLETED]
       /\ call'.op = "KindleLibrarySnapshot_events" =>
              \A a \in AsinSet, p \in Locs :
                  call'.events
                       = <<AddEvent(a), SetReadingEvent(a, p), SetFinishedEvent(a)>> =>
                      /\ call'.exc = NoException
                      /\ snapshot'.exists
                      /\ snapshot'.data[a] = [status |-> COMPLETED, progress |-> p]]_vars

\* C16: process_event of SetReading, Read or SetFinished for an id the
\* snapshot does not track raises KeyError and leaves the snapshot as it
\* was: it is no silent no-op and it creates no entry.  A constructor whose
\* list starts with such an event raises KeyError and builds no snapshot.
C16_AbsentIdRaises ==
    [][/\ (/\ call'.op = "process_event"
           /\ call'.event.cls \in {"SetReadingEvent", "ReadEvent", "SetFinishedEvent"}
           /\ call'.event.asin \notin DOMAIN snapshot.data) =>
              /\ call'.exc = "KeyError"
              /\ snapshot' = snapshot
       /\ (/\ call'.op = "KindleLibrarySnapshot_events"
           /\ call'.events # <<>>
           /\ Head(call'.events).cls # "AddEvent") =>
              /\ call'.exc = "KeyError"
              /\ snapshot' = snapshot]_vars

C16_Witness ==
    /\ call.op = "process_event"
    /\ call.event.cls = "ReadEvent"
    /\ call.exc = "KeyError"
    /\ call.event.asin \notin DOMAIN snapshot.data
    /\ DOMAIN snapshot.data # {}

\* the snapshot holds a number as the progress of item a
HasProgress(data, a) == a \in DOMAIN data /\ data[a].progress # NoProgress

\* C19: over the events applied to a snapshot, an item's progress is null
\* until a SetReading for it is applied: only a SetReading for the item
\* gives it a progress, and a SetReading applied to a tracked item does give
\* it one; from then on the item keeps a progress, and no event makes it
\* smaller.
C19_ProgressMonotone ==
    [][call'.op = "process_event" =>
          \A a \in AsinSet :
              /\ (~HasProgress(snapshot.data, a) /\ HasProgress(snapshot'.data, a)) =>
                    (call'.event.cls = "SetReadingEvent" /\ call'.event.asin = a)
              /\ (/\ call'.event.cls = "SetReadingEvent"
                  /\ call'.event.asin = a
                  /\ a \in DOMAIN snapshot.data) =>
                    HasProgress(snapshot'.data, a)
              /\ HasProgress(snapshot.data, a) =>
                    /\ HasProgress(snapshot'.data, a)
                    /\ snapshot'.data[a].progress >= snapshot.data[a].progress]_vars

\* how far along not-started -> current -> completed a status is
Stage(status) ==
    CASE status = NOT_STARTED -> 0
      [] status = CURRENT -> 1
      [] status = COMPLETED -> 2

\* the step gave item a a status it did not have
StatusChanged(a) ==
    /\ a \in DOMAIN snapshot'.data
    /\ a \in DOMAIN snapshot.data => snapshot'.data[a].status # snapshot.data[a].status

\* the event applied by the step is of class cls and for item a
Applied(cls, a) == call'.event.cls = cls /\ call'.event.asin = a

\* C20 as claimed: over the events applied to a snapshot, an item's status
\* becomes CURRENT only through a SetReading for it and COMPLETED only
\* through a SetFinished for it, and it only moves forward along
\* not-started -> current -> completed, never back.
C20_StatusOnlyForward ==
    [][call'.op = "process_event" =>
          \A a \in AsinSet :
              /\ StatusChanged(a) =>
                    /\ snapshot'.data[a].status = CURRENT => Applied("SetReadingEvent", a)
                    /\ snapshot'.data[a].status = COMPLETED => Applied("SetFinishedEvent", a)
              /\ a \in DOMAIN snapshot.data =>
                    /\ a \in DOMAIN snapshot'.data
                    /\ Stage(snapshot'.data[a].status) >= Stage(snapshot.data[a].status)]_vars

\* C20, amended: an item's status becomes CURRENT only through a SetReading
\* for it, COMPLETED only through a SetFinished for it and NOT_STARTED only
\* through an Add for it, and each of the three sets its status whatever the
\* status was: Add makes any item NOT_STARTED, SetReading makes any tracked
\* item CURRENT, SetFinished makes any tracked item COMPLETED.
C20_StatusSetByItsEvent ==
    [][call'.op = "process_event" =>
          \A a \in AsinSet :
              /\ StatusChanged(a) =>
                    /\ snapshot'.data[a].status = CURRENT => Applied("SetReadingEvent", a)
                    /\ snapshot'.data[a].status = COMPLETED => Applied("SetFinishedEvent", a)
                    /\ snapshot'.data[a].status = NOT_STARTED => Applied("AddEvent", a)
              /\ Applied("AddEvent", a) => snapshot'.data[a].status = NOT_STARTED
              /\ a \in DOMAIN snapshot.data =>
                    /\ a \in DOMAIN snapshot'.data
                    /\ Applied("SetReadingEvent", a) => snapshot'.data[a].status = CURRENT
                    /\ Applied("SetFinishedEvent", a) => snapshot'.data[a].status = COMPLETED]_vars

C20_Witness ==
    /\ call.op = "process_event"
    /\ \E a, b \in AsinSet :
          /\ call.event = SetReadingEvent(a, 0)
          /\ a \in DOMAIN snapshot.data /\ b \in DOMAIN snapshot.data
          /\ snapshot.data[a].status = CURRENT
          /\ snapshot.data[b].status = COMPLETED

\* C23: process_event is all-or-nothing. Whenever it raises, for an id the
\* snapshot lacks, a Read on a progress of None, an event of no known class
\* or anything else, the snapshot's data is what it was before the call: no
\* entry is left half-updated.
C23_AllOrNothing ==
    [][(call'.op = "process_event" /\ call'.exc # NoException) =>
           snapshot'.data = snapshot.data]_vars

(***************************************************************************)
(* Properties of one process_event on any data (SpecEntries).              *)
(***************************************************************************)
\* C21: process_event of Read(id, d) on an entry whose progress is a number
\* succeeds, adds exactly d to that progress and changes nothing else, the
\* status included, be it NOT_STARTED, CURRENT or COMPLETED; on an entry
\* whose progress is None it raises TypeError.
C21_ReadAddsDelta ==
    [][(/\ call'.op = "process_event"
        /\ call'.event.cls = "ReadEvent"
        /\ call'.event.asin \in DOMAIN snapshot.data) =>
           IF snapshot.data[call'.event.asin].progress # NoProgress
           THEN /\ call'.exc = NoException
                /\ snapshot'.data
                      = [snapshot.data EXCEPT ![call'.event.asin].progress
                                                  = @ + call'.event.progress]
           ELSE call'.exc = "TypeError"]_vars

C21_Witness ==
    /\ call.op = "process_event"
    /\ call.event.cls = "ReadEvent"
    /\ call.exc = NoException
    /\ call.event.asin \in DOMAIN snapshot.data
    /\ snapshot.data[call.event.asin].status = COMPLETED
    /\ snapshot.data[call.event.asin].progress > call.event.progress

\* C22: process_event of Add(id) succeeds and leaves an entry for id with
\* status NOT_STARTED and progress None, every other entry as it was; an
\* entry id already had is replaced, its status and progress gone.
C22_AddOverwrites ==
    [][(call'.op = "process_event" /\ call'.event.cls = "AddEvent") =>
           /\ call'.exc = NoException
           /\ snapshot'.data
                 = [a \in DOMAIN snapshot.data \cup {call'.event.asin} |->
                       IF a = call'.event.asin
                       THEN [status |-> NOT_STARTED, progress |-> NoProgress]
                       ELSE snapshot.data[a]]]_vars

C22_Witness ==
    /\ call.op = "process_event"
    /\ call.event.cls = "AddEvent"
    /\ call.exc = NoException
    /\ snapshot.data[call.event.asin] = [status |-> NOT_STARTED, progress |-> NoProgress]
    /\ \E b \in DOMAIN snapshot.data :
          /\ b # call.event.asin
          /\ snapshot.data[b].status = COMPLETED
          /\ snapshot.data[b].progress > 0

(***************************************************************************)
(* Properties of run() (Spec).                                             *)
(***************************************************************************)
\* C4: a pass records and applies its batch in canonical order, by weight
\* and then by item id, whatever order _update returned it in: no event is
\* recorded after one that follows it in that order.
C4_BatchInCanonicalOrder ==
    call.op = "pass" =>
        \A i, j \in 1..Len(call.batch) :
            i < j => ~LexLt(call.batch[j], call.batch[i])

\* C9: replay equivalence. Once a pass or a manual command has completed,
\* KindleLibrarySnapshot(store.get_events()) is built and holds the status
\* and progress of the live snapshot, item by item.
C9_ReplayEquivalence ==
    (call.op \in {"pass", "command"} /\ call.exc = NoException) =>
        LET replayed == KindleLibrarySnapshot(get_events(file))
        IN  /\ replayed.exc = NoException
            /\ replayed.data = snapshot.data


\* the catalog holds a CURRENT book for which nothing was observed
MissingObservation(data, books, progress) ==
    \E i \in CurrentBooks(data, books) : books[i].asin \notin DOMAIN progress

\* C13: a pass whose catalog holds a CURRENT book without an observation
\* fails: _update raises instead of taking the change for zero (KeyError
\* when no CURRENT book of the catalog is observed), the exception leaves
\* the pass, and the pass has then written nothing to the log and recorded
\* and applied no event of its batch.
C13_MissingObservationAborts ==
    [][(/\ call'.op = "pass"
        /\ MissingObservation(snapshot.data, call'.books, call'.progress)) =>
           /\ call'.exc # NoException
           /\ (\A i \in CurrentBooks(snapshot.data, call'.books) :
                   call'.books[i].asin \notin DOMAIN call'.progress)
                 => call'.exc = "KeyError"
           /\ call'.batch = <<>>
           /\ file' = file]_vars

C13_Witness ==
    /\ call.op = "pass"
    /\ call.exc = "KeyError"
    /\ call.batch = <<>>
    /\ file = [exists |-> TRUE, lines |-> <<>>]
    /\ Len(call.books) = 2
    /\ call.books[1].asin \in DOMAIN call.progress
    /\ call.books[2].asin \notin DOMAIN call.progress


\* the ids of the catalog are pairwise distinct
DistinctIds(books) ==
    \A i, j \in 1..Len(books) : books[i].asin = books[j].asin => i = j

\* the larger of two numbers
Larger(m, n) == IF m >= n THEN m ELSE n

\* C24: a pass converges. Over a catalog of pairwise distinct ids in which
\* every CURRENT book has an observation, the pass completes; every book of
\* the catalog that is then CURRENT has as its progress the larger of its
\* progress before the pass and its observed current location; and _update
\* on the resulting snapshot, with the same catalog and observations,
\* returns no event.
C24_PassConverges ==
    [][(/\ call'.op = "pass"
        /\ DistinctIds(call'.books)
        /\ ~MissingObservation(snapshot.data, call'.books, call'.progress)) =>
           /\ call'.exc = NoException
           /\ \A i \in CurrentBooks(snapshot'.data, call'.books) :
                  LET a == call'.books[i].asin
                  IN  /\ HasProgress(snapshot.data, a)
                      /\ HasProgress(snapshot'.data, a)
                      /\ snapshot'.data[a].progress
                            = Larger(snapshot.data[a].progress, call'.progress[a].locs[1])
           /\ _update(snapshot'.data, call'.books, call'.progress)
                 = [events |-> <<>>, exc |-> NoException]]_vars

====
